---- MODULE Spec2Model ----
(***************************************************************************)
(* Wayland/DRM helpers of libva (va/wayland/va_wayland_drm.c).             *)
(*                                                                         *)
(* The module models one display context: va_wayland_drm_init with the     *)
(* three wl_drm listener callbacks that the compositor round-trips         *)
(* dispatch, va_wayland_drm_finalize, and the vaGetDriverName hook         *)
(* va_DisplayContextGetDriverName.  Every external call (calloc, the       *)
(* registry lookup, dlopen, dlsym, bind, stat, open, drmGetMagic,          *)
(* drmGetVersion, strdup) is a nondeterministic choice over its outcomes.  *)
(* The variable calls records, in program order, the external calls and    *)
(* the events of the current init..finalize cycle.                         *)
(***************************************************************************)
EXTENDS Integers, Sequences, FiniteSets, TLC

\* ---------------------------------------------------------------- bounds
\* wl_drm device events the compositor delivers during one initialize.
MaxDeviceEvents == 2
\* init..finalize cycles the host runs on the display context.
MaxCycles == 2
\* consecutive calls of finalize.
MaxFinalize == 2

\* ------------------------------------------------------------- constants
\* A null pointer; a valid pointer is a one-element tuple naming its target.
NULL == << >>
Ptr(x) == << x >>

VA_DRM_AUTH_NONE == 0
VA_DRM_AUTH_CUSTOM == 3

VA_STATUS_SUCCESS == "VA_STATUS_SUCCESS"
VA_STATUS_ERROR_UNKNOWN == "VA_STATUS_ERROR_UNKNOWN"
VA_STATUS_ERROR_ALLOCATION_FAILED == "VA_STATUS_ERROR_ALLOCATION_FAILED"

LIBEGL_NAME == "libEGL.so.1"

\* The lowest descriptor number open() can return (0..2 are the std streams).
FirstFd == 3

VARIABLES
    pc,                 \* position of the host / of va_wayland_drm_init
    ret,                \* return value of the last va_wayland_drm_init
    drm,                \* wl_drm_ctx->drm
    is_authenticated,   \* wl_drm_ctx->is_authenticated
    libEGL_handle,      \* wl_drm_ctx->libEGL_handle
    drm_interface,      \* wl_drm_ctx->drm_interface
    finalize_hook,      \* wl_ctx->finalize
    vaGetDriverName,    \* pDisplayContext->vaGetDriverName
    drm_state,          \* ctx->drm_state
    fd,                 \* drm_state->fd
    auth_type,          \* drm_state->auth_type
    id,                 \* local id of va_wayland_drm_init
    openFds,            \* descriptors the process holds open
    authPending,        \* authenticate requests the compositor has not answered
    calls,              \* external calls and events of this cycle, in order
    cycle,              \* number of initialize calls so far
    finCalls,           \* consecutive finalize calls so far
    mapper              \* last call of the driver-name hook: its inputs,
                        \* results and external calls

vars == << pc, ret, drm, is_authenticated, libEGL_handle, drm_interface,
           finalize_hook, vaGetDriverName, drm_state, fd, auth_type, id,
           openFds, authPending, calls, cycle, finCalls, mapper >>

\* The wl_drm_ctx / drm_state fields: what finalize and init read and write.
ctxState == << drm, is_authenticated, libEGL_handle, drm_interface,
               finalize_hook, vaGetDriverName, drm_state, fd, auth_type >>

\* ------------------------------------------------------------ call trace
Count(s, c) == Cardinality({ i \in 1..Len(s) : s[i] = c })

Has(c) == \E i \in 1..Len(calls) : calls[i] = c

NoMapperCall == [called |-> FALSE, drm_version |-> NULL, status |-> "none",
                 driver_name_ptr |-> NULL, calls |-> << >>]

\* ------------------------------------------------------------------ Init
\* The display context as the host framework constructs it: zero-filled.
Init ==
    /\ pc = "idle"
    /\ ret = "none"
    /\ drm = NULL
    /\ is_authenticated = 0
    /\ libEGL_handle = NULL
    /\ drm_interface = NULL
    /\ finalize_hook = NULL
    /\ vaGetDriverName = NULL
    /\ drm_state = NULL
    /\ fd = -1
    /\ auth_type = VA_DRM_AUTH_NONE
    /\ id = 0
    /\ openFds = {}
    /\ authPending = 0
    /\ calls = << >>
    /\ cycle = 0
    /\ finCalls = 0
    /\ mapper = NoMapperCall

\* ------------------------------------------------- va_wayland_drm_init
Return(v) == pc' = "done" /\ ret' = v

\* The host calls initialize on a fresh context or on a finalized one.
InitCallable == pc \in {"idle", "finalized"}

\* Variant: the fields are left as calloc zero-filled them.
NewDrmState_Zeroed == [fd |-> 0, auth_type |-> 0]

\* Lines 194-195: the fields of a newly allocated drm_state.
NewDrmState == [fd |-> -1, auth_type |-> 0]

\* Line 222: the test made after the first post-bind round-trip.
FdNotOpened(f) == f < 0

\* Variant: the authenticated flag is not tested.
IsAuthenticated_Always(flag) == TRUE

\* Line 226: the test made after the second post-bind round-trip.
IsAuthenticated(flag) == flag # 0

\* Lines 186-196: reset the session, install the hooks, allocate drm_state.
InitEnter ==
    /\ InitCallable
    /\ cycle < MaxCycles
    /\ cycle' = cycle + 1
    /\ finCalls' = 0
    /\ mapper' = NoMapperCall
    /\ authPending' = 0
    /\ drm' = NULL
    /\ is_authenticated' = 0
    /\ finalize_hook' = Ptr("va_wayland_drm_finalize")
    /\ vaGetDriverName' = Ptr("va_DisplayContextGetDriverName")
    /\ id' = 0
    /\ \/ /\ calls' = << "calloc.fail" >>
          /\ Return(FALSE)
          /\ UNCHANGED << drm_state, fd, auth_type >>
       \/ /\ calls' = << "calloc.ok" >>
          /\ drm_state' = Ptr("drm_state")
          /\ fd' = NewDrmState.fd
          /\ auth_type' = NewDrmState.auth_type
          /\ pc' = "get_global"
          /\ ret' = "none"
    /\ UNCHANGED << libEGL_handle, drm_interface, openFds >>

\* Lines 198-199: first registry lookup.
InitGetGlobal ==
    /\ pc = "get_global"
    /\ \/ /\ id' = 0
          /\ calls' = Append(calls, "wl_display_get_global.none")
          /\ pc' = "registry_roundtrip"
       \/ /\ id' = 1
          /\ calls' = Append(calls, "wl_display_get_global.found")
          /\ pc' = "dlopen"
    /\ UNCHANGED << ret, drm, is_authenticated, libEGL_handle, drm_interface,
                    finalize_hook, vaGetDriverName, drm_state, fd, auth_type,
                    openFds, authPending, cycle, finCalls, mapper >>

\* Variant: the lookup is retried in a loop, as long as it finds nothing.
InitRegistryRoundtrip_Loops ==
    /\ pc = "registry_roundtrip"
    /\ calls' = Append(calls, "wl_display_roundtrip")
    /\ pc' = "get_global"
    /\ UNCHANGED << ret, drm, is_authenticated, libEGL_handle, drm_interface,
                    finalize_hook, vaGetDriverName, drm_state, fd, auth_type,
                    id, openFds, authPending, cycle, finCalls, mapper >>

\* Line 200: the round-trip before the retry; no wl_drm proxy exists yet, so
\* no wl_drm event can be dispatched by it.
InitRegistryRoundtrip ==
    /\ pc = "registry_roundtrip"
    /\ calls' = Append(calls, "wl_display_roundtrip")
    /\ pc' = "get_global_retry"
    /\ UNCHANGED << ret, drm, is_authenticated, libEGL_handle, drm_interface,
                    finalize_hook, vaGetDriverName, drm_state, fd, auth_type,
                    id, openFds, authPending, cycle, finCalls, mapper >>

\* Variant: the failed retry does not return and goes on to load the library.
InitGetGlobalRetry_NoReturn ==
    /\ pc = "get_global_retry"
    /\ \/ /\ id' = 0
          /\ calls' = Append(calls, "wl_display_get_global.none")
       \/ /\ id' = 1
          /\ calls' = Append(calls, "wl_display_get_global.found")
    /\ pc' = "dlopen"
    /\ UNCHANGED << ret, drm, is_authenticated, libEGL_handle, drm_interface,
                    finalize_hook, vaGetDriverName, drm_state, fd, auth_type,
                    openFds, authPending, cycle, finCalls, mapper >>

\* Lines 201-203: the single retry of the registry lookup.
InitGetGlobalRetry ==
    /\ pc = "get_global_retry"
    /\ \/ /\ id' = 0
          /\ calls' = Append(calls, "wl_display_get_global.none")
          /\ Return(FALSE)
       \/ /\ id' = 1
          /\ calls' = Append(calls, "wl_display_get_global.found")
          /\ pc' = "dlopen"
          /\ ret' = ret
    /\ UNCHANGED << drm, is_authenticated, libEGL_handle, drm_interface,
                    finalize_hook, vaGetDriverName, drm_state, fd, auth_type,
                    openFds, authPending, cycle, finCalls, mapper >>

\* Lines 206-208: load the library that holds wl_drm_interface.
InitDlopen ==
    /\ pc = "dlopen"
    /\ \/ /\ libEGL_handle' = NULL
          /\ calls' = Append(calls, "dlopen.fail")
          /\ Return(FALSE)
       \/ /\ libEGL_handle' = Ptr(LIBEGL_NAME)
          /\ calls' = Append(calls, "dlopen.ok")
          /\ pc' = "dlsym"
          /\ ret' = ret
    /\ UNCHANGED << drm, is_authenticated, drm_interface, finalize_hook,
                    vaGetDriverName, drm_state, fd, auth_type, id, openFds,
                    authPending, cycle, finCalls, mapper >>

\* Lines 210-213: resolve the interface descriptor.
InitDlsym ==
    /\ pc = "dlsym"
    /\ \/ /\ drm_interface' = NULL
          /\ calls' = Append(calls, "dlsym.fail")
          /\ Return(FALSE)
       \/ /\ drm_interface' = Ptr("wl_drm_interface")
          /\ calls' = Append(calls, "dlsym.ok")
          /\ pc' = "bind"
          /\ ret' = ret
    /\ UNCHANGED << drm, is_authenticated, libEGL_handle, finalize_hook,
                    vaGetDriverName, drm_state, fd, auth_type, id, openFds,
                    authPending, cycle, finCalls, mapper >>

\* Lines 215-218: bind the registry entry to a local proxy.
InitBind ==
    /\ pc = "bind"
    /\ \/ /\ drm' = NULL
          /\ calls' = Append(calls, "wl_display_bind.fail")
          /\ Return(FALSE)
       \/ /\ drm' = Ptr("wl_drm")
          /\ calls' = Append(calls, "wl_display_bind.ok")
          /\ pc' = "add_listener"
          /\ ret' = ret
    /\ UNCHANGED << is_authenticated, libEGL_handle, drm_interface,
                    finalize_hook, vaGetDriverName, drm_state, fd, auth_type,
                    id, openFds, authPending, cycle, finCalls, mapper >>

\* Line 220: register drm_listener; the next line enters the first round-trip.
InitAddListener ==
    /\ pc = "add_listener"
    /\ calls' = Append(calls, "wl_drm_add_listener")
    /\ pc' = "roundtrip1"
    /\ UNCHANGED << ret, drm, is_authenticated, libEGL_handle, drm_interface,
                    finalize_hook, vaGetDriverName, drm_state, fd, auth_type,
                    id, openFds, authPending, cycle, finCalls, mapper >>

\* Lines 221-223: the first round-trip returns; fail if no descriptor is open.
InitCheckFd ==
    /\ pc = "roundtrip1"
    /\ calls' = Append(calls, "wl_display_roundtrip")
    /\ IF FdNotOpened(fd)
       THEN Return(FALSE)
       ELSE pc' = "roundtrip2" /\ ret' = ret
    /\ UNCHANGED << drm, is_authenticated, libEGL_handle, drm_interface,
                    finalize_hook, vaGetDriverName, drm_state, fd, auth_type,
                    id, openFds, authPending, cycle, finCalls, mapper >>

\* Variant: the flag is tested without the second round-trip.
InitCheckAuthenticated_NoRoundtrip ==
    /\ pc = "roundtrip2"
    /\ IF ~IsAuthenticated(is_authenticated)
       THEN Return(FALSE)
       ELSE Return(TRUE)
    /\ UNCHANGED << drm, is_authenticated, libEGL_handle, drm_interface,
                    finalize_hook, vaGetDriverName, drm_state, fd, auth_type,
                    id, openFds, authPending, calls, cycle, finCalls, mapper >>

\* Lines 225-228: the second round-trip returns; succeed iff authenticated.
InitCheckAuthenticated ==
    /\ pc = "roundtrip2"
    /\ calls' = Append(calls, "wl_display_roundtrip")
    /\ IF ~IsAuthenticated(is_authenticated)
       THEN Return(FALSE)
       ELSE Return(TRUE)
    /\ UNCHANGED << drm, is_authenticated, libEGL_handle, drm_interface,
                    finalize_hook, vaGetDriverName, drm_state, fd, auth_type,
                    id, openFds, authPending, cycle, finCalls, mapper >>

va_wayland_drm_init ==
    \/ InitEnter
    \/ InitGetGlobal
    \/ InitRegistryRoundtrip
    \/ InitGetGlobalRetry
    \/ InitDlopen
    \/ InitDlsym
    \/ InitBind
    \/ InitAddListener
    \/ InitCheckFd
    \/ InitCheckAuthenticated

\* ------------------------------------------------ wl_drm listener, 43-97
\* The compositor dispatches wl_drm events only while a round-trip of a bound,
\* listened-to proxy is in progress (lines 221 and 225).
Dispatching == pc \in {"roundtrip1", "roundtrip2"}

\* open() returns the lowest descriptor number that is not in use.
LowestFreeFd == CHOOSE n \in FirstFd..(FirstFd + Cardinality(openFds)) :
                    /\ n \notin openFds
                    /\ \A k \in FirstFd..(n - 1) : k \in openFds

\* Variant: no return after a failed open; the token is requested and
\* submitted for the invalid descriptor.
drm_handle_device_NoReturnOnOpenFail ==
    /\ Dispatching
    /\ Count(calls, "event.device") < MaxDeviceEvents
    /\ LET c0 == Append(calls, "event.device") IN
       \/ /\ calls' = Append(c0, "stat.fail")
          /\ UNCHANGED << fd, openFds, authPending >>
       \/ /\ calls' = c0 \o << "stat.ok", "S_ISCHR.false" >>
          /\ UNCHANGED << fd, openFds, authPending >>
       \/ /\ calls' = c0 \o << "stat.ok", "S_ISCHR.true", "open.fail",
                               "drmGetMagic.fail", "wl_drm_authenticate" >>
          /\ fd' = -1
          /\ authPending' = authPending + 1
          /\ UNCHANGED openFds
       \/ \E magic \in {"drmGetMagic.ok", "drmGetMagic.fail"} :
          /\ calls' = c0 \o << "stat.ok", "S_ISCHR.true", "open.ok", magic,
                               "wl_drm_authenticate" >>
          /\ fd' = LowestFreeFd
          /\ openFds' = openFds \cup {LowestFreeFd}
          /\ authPending' = authPending + 1
    /\ UNCHANGED << pc, ret, drm, is_authenticated, libEGL_handle,
                    drm_interface, finalize_hook, vaGetDriverName, drm_state,
                    auth_type, id, cycle, finCalls, mapper >>

\* Lines 43-74: the device-advertisement callback.
drm_handle_device ==
    /\ Dispatching
    /\ Count(calls, "event.device") < MaxDeviceEvents
    /\ LET c0 == Append(calls, "event.device") IN
       \/ \* line 54: stat fails
          /\ calls' = Append(c0, "stat.fail")
          /\ UNCHANGED << fd, openFds, authPending >>
       \/ \* line 60: not a character device
          /\ calls' = c0 \o << "stat.ok", "S_ISCHR.false" >>
          /\ UNCHANGED << fd, openFds, authPending >>
       \/ \* lines 65-70: open fails, its result is stored in drm_state->fd
          /\ calls' = c0 \o << "stat.ok", "S_ISCHR.true", "open.fail" >>
          /\ fd' = -1
          /\ UNCHANGED << openFds, authPending >>
       \/ \* lines 65-73: open succeeds; the result of drmGetMagic is not
          \* looked at and the magic is submitted either way
          \E magic \in {"drmGetMagic.ok", "drmGetMagic.fail"} :
          /\ calls' = c0 \o << "stat.ok", "S_ISCHR.true", "open.ok", magic,
                               "wl_drm_authenticate" >>
          /\ fd' = LowestFreeFd
          /\ openFds' = openFds \cup {LowestFreeFd}
          /\ authPending' = authPending + 1
    /\ UNCHANGED << pc, ret, drm, is_authenticated, libEGL_handle,
                    drm_interface, finalize_hook, vaGetDriverName, drm_state,
                    auth_type, id, cycle, finCalls, mapper >>

\* Lines 76-79: the pixel-format callback does nothing.
drm_handle_format ==
    /\ Dispatching
    /\ UNCHANGED vars

\* Lines 81-91: the authentication-confirmed callback.  The compositor sends
\* the event only in answer to an authenticate request, and may never answer.
drm_handle_authenticated ==
    /\ Dispatching
    /\ authPending > 0
    /\ authPending' = authPending - 1
    /\ calls' = Append(calls, "event.authenticated")
    /\ is_authenticated' = 1
    /\ auth_type' = VA_DRM_AUTH_CUSTOM
    /\ UNCHANGED << pc, ret, drm, libEGL_handle, drm_interface, finalize_hook,
                    vaGetDriverName, drm_state, fd, id, openFds, cycle,
                    finCalls, mapper >>

\* --------------------------------------- va_wayland_drm_finalize, 148-175
\* The host calls the finalize hook after initialize has returned.
FinalizeCallable == pc \in {"done", "finalized"} /\ finalize_hook # NULL

\* Variant: the proxy pointer is not cleared after wl_drm_destroy.
va_wayland_drm_finalize_KeepsProxy ==
    /\ FinalizeCallable
    /\ finCalls < MaxFinalize
    /\ finCalls' = finCalls + 1
    /\ pc' = "finalized"
    /\ LET c1 == IF drm # NULL THEN Append(calls, "wl_drm_destroy") ELSE calls
           c2 == IF libEGL_handle # NULL THEN Append(c1, "dlclose") ELSE c1
           c3 == IF drm_state # NULL /\ fd >= 0
                 THEN Append(c2, IF fd \in openFds THEN "close.ok"
                                                    ELSE "close.EBADF")
                 ELSE c2
           c4 == IF drm_state # NULL THEN Append(c3, "free") ELSE c3
       IN  calls' = c4
    /\ is_authenticated' = 0
    /\ libEGL_handle' = NULL
    /\ IF drm_state # NULL
       THEN /\ openFds' = IF fd >= 0 THEN openFds \ {fd} ELSE openFds
            /\ fd' = -1
            /\ drm_state' = NULL
       ELSE UNCHANGED << openFds, fd, drm_state >>
    /\ mapper' = NoMapperCall
    /\ UNCHANGED << ret, drm, drm_interface, finalize_hook, vaGetDriverName,
                    auth_type, id, authPending, cycle >>

\* Lines 148-175.  The result of the hook is the host's, which has used it
\* by the time it tears the context down: the record of the call is dropped.
va_wayland_drm_finalize ==
    /\ FinalizeCallable
    /\ finCalls < MaxFinalize
    /\ finCalls' = finCalls + 1
    /\ pc' = "finalized"
    /\ LET c1 == IF drm # NULL THEN Append(calls, "wl_drm_destroy") ELSE calls
           c2 == IF libEGL_handle # NULL THEN Append(c1, "dlclose") ELSE c1
           c3 == IF drm_state # NULL /\ fd >= 0
                 THEN Append(c2, IF fd \in openFds THEN "close.ok"
                                                    ELSE "close.EBADF")
                 ELSE c2
           c4 == IF drm_state # NULL THEN Append(c3, "free") ELSE c3
       IN  calls' = c4
    /\ drm' = NULL
    /\ is_authenticated' = 0
    /\ libEGL_handle' = NULL
    /\ IF drm_state # NULL
       THEN /\ openFds' = IF fd >= 0 THEN openFds \ {fd} ELSE openFds
            /\ fd' = -1
            /\ drm_state' = NULL
       ELSE UNCHANGED << openFds, fd, drm_state >>
    /\ mapper' = NoMapperCall
    /\ UNCHANGED << ret, drm_interface, finalize_hook, vaGetDriverName,
                    auth_type, id, authPending, cycle >>

\* ------------------------------- va_DisplayContextGetDriverName, 99-146
\* C strings are tuples of characters; NUL is the terminator read past the end.
NUL == ""
CharAt(str, k) == IF k <= Len(str) THEN str[k] ELSE NUL

\* strncmp(3): 0 iff the first n bytes agree, or both strings end earlier.
RECURSIVE StrncmpFrom(_, _, _, _)
StrncmpFrom(s1, s2, n, k) ==
    IF k > n THEN 0
    ELSE IF CharAt(s1, k) # CharAt(s2, k) THEN 1
    ELSE IF CharAt(s1, k) = NUL THEN 0
    ELSE StrncmpFrom(s1, s2, n, k + 1)

strncmp(s1, s2, n) == StrncmpFrom(s1, s2, n, 1)

\* Lines 105-110: the static table with its terminating { NULL, } entry.
g_driver_name_map == <<
    [key |-> Ptr(<< "i", "9", "1", "5" >>), key_len |-> 4, name |-> Ptr("i965")],
    [key |-> Ptr(<< "p", "v", "r", "s", "r", "v", "k", "m" >>), key_len |-> 8,
     name |-> Ptr("pvr")],
    [key |-> Ptr(<< "e", "m", "g", "d" >>), key_len |-> 4, name |-> Ptr("emgd")],
    [key |-> NULL, key_len |-> 0, name |-> NULL] >>

\* What drmGetVersion returns for a driver called str.
DrmVersion(str) == Ptr([name |-> str, name_len |-> Len(str)])

\* Variant: the length guard is strict.
EntryMatches_OffByOne(m, version) ==
    /\ version.name_len > m.key_len
    /\ strncmp(version.name, m.key[1], m.key_len) = 0

\* Lines 131-132: the test of one table entry m against the version record.
EntryMatches(m, version) ==
    /\ version.name_len >= m.key_len
    /\ strncmp(version.name, m.key[1], m.key_len) = 0

\* Lines 130-134: the index at which the for loop stops.
RECURSIVE ScanFrom(_, _, _)
ScanFrom(map, version, i) ==
    IF map[i].key = NULL THEN i
    ELSE IF EntryMatches(map[i], version) THEN i
    ELSE ScanFrom(map, version, i + 1)

\* Lines 126-135 after a successful drmGetVersion: every tested table entry
\* reads drm_version (name_len, name), then the record is freed.
QueryOkCalls(map, version) ==
    LET i == ScanFrom(map, version, 1)
        tested == IF map[i].key = NULL THEN i - 1 ELSE i
    IN  << "drmGetVersion.ok" >>
            \o [k \in 1..tested |-> "drm_version.read"]
            \o << "drmFreeVersion" >>

\* Variant: a failed strdup is reported with the generic status.
GetDriverName_StrdupUnknown(map, drm_version, strdupOk) ==
    IF drm_version = NULL
    THEN [status |-> VA_STATUS_ERROR_UNKNOWN, driver_name_ptr |-> NULL,
          calls |-> << "drmGetVersion.fail" >>]
    ELSE LET m == map[ScanFrom(map, drm_version[1], 1)] IN
         IF m.name = NULL
         THEN [status |-> VA_STATUS_ERROR_UNKNOWN, driver_name_ptr |-> NULL,
               calls |-> QueryOkCalls(map, drm_version[1])]
         ELSE IF ~strdupOk
         THEN [status |-> VA_STATUS_ERROR_UNKNOWN,
               driver_name_ptr |-> NULL,
               calls |-> Append(QueryOkCalls(map, drm_version[1]),
                                "strdup.fail")]
         ELSE [status |-> VA_STATUS_SUCCESS, driver_name_ptr |-> m.name,
               calls |-> Append(QueryOkCalls(map, drm_version[1]),
                                "strdup.ok")]

\* Variant: drmFreeVersion is placed after the no-match return, so that path
\* leaks the record.
GetDriverName_LeakOnNoMatch(map, drm_version, strdupOk) ==
    IF drm_version = NULL
    THEN [status |-> VA_STATUS_ERROR_UNKNOWN, driver_name_ptr |-> NULL,
          calls |-> << "drmGetVersion.fail" >>]
    ELSE LET m == map[ScanFrom(map, drm_version[1], 1)]
             c == QueryOkCalls(map, drm_version[1]) IN
         IF m.name = NULL
         THEN [status |-> VA_STATUS_ERROR_UNKNOWN, driver_name_ptr |-> NULL,
               calls |-> SubSeq(c, 1, Len(c) - 1)]
         ELSE IF ~strdupOk
         THEN [status |-> VA_STATUS_ERROR_ALLOCATION_FAILED,
               driver_name_ptr |-> NULL,
               calls |-> Append(c, "strdup.fail")]
         ELSE [status |-> VA_STATUS_SUCCESS, driver_name_ptr |-> m.name,
               calls |-> Append(c, "strdup.ok")]

\* Lines 124-145 as a function of the table, the result of drmGetVersion and
\* the outcome of strdup: the status, *driver_name_ptr and the calls made.
GetDriverName(map, drm_version, strdupOk) ==
    IF drm_version = NULL
    THEN [status |-> VA_STATUS_ERROR_UNKNOWN, driver_name_ptr |-> NULL,
          calls |-> << "drmGetVersion.fail" >>]
    ELSE LET m == map[ScanFrom(map, drm_version[1], 1)] IN
         IF m.name = NULL
         THEN [status |-> VA_STATUS_ERROR_UNKNOWN, driver_name_ptr |-> NULL,
               calls |-> QueryOkCalls(map, drm_version[1])]
         ELSE IF ~strdupOk
         THEN [status |-> VA_STATUS_ERROR_ALLOCATION_FAILED,
               driver_name_ptr |-> NULL,
               calls |-> Append(QueryOkCalls(map, drm_version[1]),
                                "strdup.fail")]
         ELSE [status |-> VA_STATUS_SUCCESS, driver_name_ptr |-> m.name,
               calls |-> Append(QueryOkCalls(map, drm_version[1]),
                                "strdup.ok")]

\* Kernel driver names: each table key, a proper prefix of it, an extension of
\* it, and names that match nothing.
DriverNames == {
    << "i", "9", "1", "5" >>, << "i", "9", "1" >>, << "i", "9", "1", "5", "x" >>,
    << "p", "v", "r", "s", "r", "v", "k", "m" >>,
    << "p", "v", "r", "s", "r", "v", "k" >>,
    << "p", "v", "r", "s", "r", "v", "k", "m", "2" >>,
    << "e", "m", "g", "d" >>, << "e", "m", "g" >>, << "e", "m", "g", "d", "1" >>,
    << "n", "o", "u", "v", "e", "a", "u" >>, << "I", "9", "1", "5" >>,
    << "x", "i", "9", "1", "5" >>, << >> }

\* The host framework calls the hook once, during driver selection, after a
\* successful initialize and before finalize.
MapperCallable ==
    /\ pc = "done"
    /\ ret = TRUE
    /\ vaGetDriverName # NULL
    /\ ~mapper.called

\* drmGetVersion(fd) can succeed only on an open descriptor, and may fail.
va_DisplayContextGetDriverName ==
    /\ MapperCallable
    /\ \E drm_version \in {NULL} \cup
                         (IF fd \in openFds
                          THEN {DrmVersion(str) : str \in DriverNames}
                          ELSE {}),
          strdupOk \in BOOLEAN :
          LET r == GetDriverName(g_driver_name_map, drm_version, strdupOk) IN
          mapper' = [called |-> TRUE, drm_version |-> drm_version,
                     status |-> r.status,
                     driver_name_ptr |-> r.driver_name_ptr,
                     calls |-> r.calls]
    /\ UNCHANGED << pc, ret, drm, is_authenticated, libEGL_handle,
                    drm_interface, finalize_hook, vaGetDriverName, drm_state,
                    fd, auth_type, id, openFds, authPending, calls, cycle,
                    finCalls >>

Next ==
    \/ va_wayland_drm_init
    \/ drm_handle_device
    \/ drm_handle_format
    \/ drm_handle_authenticated
    \/ va_wayland_drm_finalize
    \/ va_DisplayContextGetDriverName

Spec == Init /\ [][Next]_vars

\* ================================================================ claims
Returned == pc = "done"
Roundtrips == Count(calls, "wl_display_roundtrip")
Lookups == Count(calls, "wl_display_get_global.none")
           + Count(calls, "wl_display_get_global.found")

\* C1: whenever initialize has returned true, the descriptor is >= 0, the
\* authentication-confirmed event has been received (is_authenticated = 1)
\* and authType is Custom.
C1_TrueImpliesOpenAndAuthenticated ==
    (Returned /\ ret = TRUE) =>
        /\ fd >= 0
        /\ is_authenticated = 1
        /\ Has("event.authenticated")
        /\ auth_type = VA_DRM_AUTH_CUSTOM

\* C2: when a device path was advertised and no advertised path could be
\* opened (stat failed, not a character device, or open failed), initialize
\* returns false, the descriptor of the DrmState is -1 at return and no
\* authentication token has been sent to the compositor.
C2_NoDeviceOpenedImpliesFalse ==
    (Returned /\ Has("event.device") /\ ~Has("open.ok")) =>
        /\ ret = FALSE
        /\ drm_state # NULL
        /\ fd = -1
        /\ ~Has("wl_drm_authenticate")

W2_DeviceNotOpened ==
    /\ Returned
    /\ Has("stat.fail")
    /\ Has("S_ISCHR.false")
    /\ ~Has("open.ok")
    /\ ret = FALSE
    /\ fd = -1

\* C3: whatever initialize returned, the following finalize releases each
\* acquired resource (proxy, library handle, descriptor, state structure)
\* exactly once, never releases one that was not acquired in this cycle, and
\* leaves proxy, library handle and state structure null and the flag 0.
C3_FinalizeReleasesEachAcquiredOnce ==
    /\ Count(calls, "wl_drm_destroy") <= Count(calls, "wl_display_bind.ok")
    /\ Count(calls, "dlclose") <= Count(calls, "dlopen.ok")
    /\ Count(calls, "close.ok") <= Count(calls, "open.ok")
    /\ Count(calls, "free") <= Count(calls, "calloc.ok")
    /\ ~Has("close.EBADF")
    /\ pc = "finalized" =>
        /\ Count(calls, "wl_drm_destroy") = Count(calls, "wl_display_bind.ok")
        /\ Count(calls, "dlclose") = Count(calls, "dlopen.ok")
        /\ Count(calls, "close.ok") = Count(calls, "open.ok")
        /\ Count(calls, "free") = Count(calls, "calloc.ok")
        /\ drm = NULL
        /\ is_authenticated = 0
        /\ libEGL_handle = NULL
        /\ drm_state = NULL

\* C4: the driver-name hook is only ever called after an initialize that
\* returned true with no finalize in between, and never in a state where the
\* descriptor is < 0 or authType is None.
C4_MapperCalledOnlyOpenAndAuthenticated ==
    (mapper.called /\ pc = "done") =>
        /\ ret = TRUE
        /\ fd >= 0
        /\ auth_type # VA_DRM_AUTH_NONE

\* C5: the hook returns the mapped name of the first table entry, in table
\* order, whose key is a byte-exact prefix of the reported driver name, and
\* the unknown-error status iff no entry matches; i915 -> i965,
\* pvrsrvkm -> pvr, emgd -> emgd, nouveau -> unknown; with overlapping
\* prefixes the earlier entry wins.
IsPrefixOf(key, str) ==
    /\ Len(str) >= Len(key)
    /\ \A k \in 1..Len(key) : str[k] = key[k]

\* The first entry before the terminator whose key is a prefix of str, or 0.
FirstMatch(map, str) ==
    LET hits == { i \in 1..Len(map) :
                    /\ \A j \in 1..i : map[j].key # NULL
                    /\ IsPrefixOf(map[i].key[1], str) }
    IN  IF hits = {} THEN 0
        ELSE CHOOSE i \in hits : \A j \in hits : i <= j

\* A table with overlapping prefixes, in both orders.
OverlapMapShortFirst == <<
    [key |-> Ptr(<< "i", "9" >>), key_len |-> 2, name |-> Ptr("short")],
    [key |-> Ptr(<< "i", "9", "1", "5" >>), key_len |-> 4, name |-> Ptr("long")],
    [key |-> NULL, key_len |-> 0, name |-> NULL] >>

OverlapMapLongFirst == <<
    [key |-> Ptr(<< "i", "9", "1", "5" >>), key_len |-> 4, name |-> Ptr("long")],
    [key |-> Ptr(<< "i", "9" >>), key_len |-> 2, name |-> Ptr("short")],
    [key |-> NULL, key_len |-> 0, name |-> NULL] >>

Resolve(map, str) == GetDriverName(map, DrmVersion(str), TRUE)

C5_FirstPrefixMatchWins ==
    (mapper.called /\ mapper.drm_version # NULL) =>
        LET str == mapper.drm_version[1].name
            dup == mapper.calls[Len(mapper.calls)] = "strdup.ok"
            i == FirstMatch(g_driver_name_map, str)
            s == FirstMatch(OverlapMapShortFirst, str)
            l == FirstMatch(OverlapMapLongFirst, str)
        IN  /\ (mapper.status = VA_STATUS_ERROR_UNKNOWN) <=> (i = 0)
            /\ (i # 0 /\ dup) =>
                  /\ mapper.status = VA_STATUS_SUCCESS
                  /\ mapper.driver_name_ptr = g_driver_name_map[i].name
            /\ (dup /\ str = << "i", "9", "1", "5" >>) =>
                  mapper.driver_name_ptr = Ptr("i965")
            /\ (dup /\ str = << "p", "v", "r", "s", "r", "v", "k", "m" >>) =>
                  mapper.driver_name_ptr = Ptr("pvr")
            /\ (dup /\ str = << "e", "m", "g", "d" >>) =>
                  mapper.driver_name_ptr = Ptr("emgd")
            /\ str = << "n", "o", "u", "v", "e", "a", "u" >> =>
                  mapper.status = VA_STATUS_ERROR_UNKNOWN
            \* the same scan over tables with overlapping prefixes
            /\ IF s = 0
               THEN Resolve(OverlapMapShortFirst, str).status
                        = VA_STATUS_ERROR_UNKNOWN
               ELSE Resolve(OverlapMapShortFirst, str).driver_name_ptr
                        = OverlapMapShortFirst[s].name
            /\ IF l = 0
               THEN Resolve(OverlapMapLongFirst, str).status
                        = VA_STATUS_ERROR_UNKNOWN
               ELSE Resolve(OverlapMapLongFirst, str).driver_name_ptr
                        = OverlapMapLongFirst[l].name
            /\ str = << "i", "9", "1", "5" >> =>
                  /\ Resolve(OverlapMapShortFirst, str).driver_name_ptr
                        = Ptr("short")
                  /\ Resolve(OverlapMapLongFirst, str).driver_name_ptr
                        = Ptr("long")

W5_LongerNameMapped ==
    /\ mapper.called
    /\ mapper.drm_version = DrmVersion(<< "i", "9", "1", "5", "x" >>)
    /\ mapper.status = VA_STATUS_SUCCESS
    /\ mapper.driver_name_ptr = Ptr("i965")

\* C6: the output pointer of the hook is non-null iff the status is success:
\* a failed driver query and a no-match give unknown-error with a null
\* output, a failed duplication gives allocation-failure with a null output,
\* and success carries a copy of the mapped name.
C6_OutputNonNullIffSuccess ==
    mapper.called =>
        /\ (mapper.driver_name_ptr # NULL) <=> (mapper.status = VA_STATUS_SUCCESS)
        /\ mapper.status \in { VA_STATUS_SUCCESS, VA_STATUS_ERROR_UNKNOWN,
                               VA_STATUS_ERROR_ALLOCATION_FAILED }
        /\ mapper.drm_version = NULL =>
              mapper.status = VA_STATUS_ERROR_UNKNOWN
        /\ (mapper.drm_version # NULL
              /\ FirstMatch(g_driver_name_map, mapper.drm_version[1].name) = 0)
              => mapper.status = VA_STATUS_ERROR_UNKNOWN
        /\ (\E k \in 1..Len(mapper.calls) : mapper.calls[k] = "strdup.fail")
              <=> (mapper.status = VA_STATUS_ERROR_ALLOCATION_FAILED)
        /\ mapper.status = VA_STATUS_SUCCESS =>
              /\ \E k \in 1..Len(mapper.calls) : mapper.calls[k] = "strdup.ok"
              /\ mapper.driver_name_ptr \in { Ptr("i965"), Ptr("pvr"), Ptr("emgd") }

W6_AllocationFailure ==
    /\ mapper.called
    /\ mapper.status = VA_STATUS_ERROR_ALLOCATION_FAILED
    /\ mapper.driver_name_ptr = NULL
    /\ mapper.drm_version # NULL

\* C7: finalize is idempotent: a finalize called on an already finalized
\* context changes no field of the context and performs no release.
C7_FinalizeIdempotent ==
    [][ (pc = "finalized" /\ finCalls' = finCalls + 1) =>
            /\ ctxState' = ctxState
            /\ openFds' = openFds
            /\ calls' = calls ]_vars

W7_FinalizedTwice ==
    /\ pc = "finalized"
    /\ finCalls = 2
    /\ Has("wl_drm_destroy")
    /\ Has("dlclose")
    /\ Has("close.ok")
    /\ Has("free")

\* C8: if a device was opened but no authentication-confirmed event has been
\* delivered when the second post-bind round-trip ends, initialize returns
\* false, authType is None and the authenticated flag is 0.
C8_UnconfirmedImpliesFalse ==
    (Returned /\ Has("open.ok") /\ ~Has("event.authenticated")) =>
        /\ ret = FALSE
        /\ auth_type = VA_DRM_AUTH_NONE
        /\ is_authenticated = 0

W8_OpenedButUnconfirmed ==
    /\ Returned
    /\ Has("open.ok")
    /\ fd >= 0
    /\ ~Has("event.authenticated")
    /\ Roundtrips >= 2
    /\ ret = FALSE

\* C9: while the DrmState exists, fd >= 0 implies that an open succeeded in
\* this cycle and that descriptor is still open, and authType != None implies
\* that the authentication-confirmed event was received in this cycle.
C9_DrmStateInvariant ==
    drm_state # NULL =>
        /\ fd >= 0 => (Has("open.ok") /\ fd \in openFds /\ ~Has("close.ok"))
        /\ auth_type # VA_DRM_AUTH_NONE => Has("event.authenticated")

W9_OpenAuthenticatedSecondCycle ==
    /\ drm_state # NULL
    /\ cycle = 2
    /\ fd >= 0
    /\ auth_type = VA_DRM_AUTH_CUSTOM

\* C10 as stated: the library is loaded and the symbol resolved before the
\* registry is queried; when the library cannot be loaded initialize returns
\* false without any registry lookup or round-trip.
C10_LibraryBeforeRegistry ==
    /\ \A j \in 1..Len(calls) :
          calls[j] \in { "wl_display_get_global.none",
                         "wl_display_get_global.found" }
              => \E i \in 1..(j - 1) : calls[i] = "dlsym.ok"
    /\ Has("dlopen.fail") => (Lookups = 0 /\ Roundtrips = 0)

\* C10 amended: the registry is queried (with its single round-trip retry)
\* before the library is loaded and the symbol resolved; an absent registry
\* entry makes initialize return false without loading the library, and a
\* library that cannot be loaded makes it return false after one or two
\* lookups and at most one round-trip.
C10_RegistryBeforeLibrary ==
    /\ \A j \in 1..Len(calls) :
          calls[j] \in { "dlopen.ok", "dlopen.fail" }
              => \E i \in 1..(j - 1) : calls[i] = "wl_display_get_global.found"
    /\ \A j \in 1..Len(calls) :
          calls[j] \in { "dlsym.ok", "dlsym.fail" }
              => \E i \in 1..(j - 1) : calls[i] = "dlopen.ok"
    /\ \A j \in 1..Len(calls) :
          calls[j] \in { "wl_display_bind.ok", "wl_display_bind.fail" }
              => \E i \in 1..(j - 1) : calls[i] = "dlsym.ok"
    /\ (Returned /\ ~Has("wl_display_get_global.found")
                 /\ Has("wl_display_get_global.none")) =>
          (ret = FALSE /\ ~Has("dlopen.ok") /\ ~Has("dlopen.fail"))
    /\ Has("dlopen.fail") =>
          /\ pc \in { "done", "finalized" }
          /\ ret = FALSE
          /\ Lookups \in 1..2
          /\ Roundtrips <= 1

W10_LoadFailsAfterRetriedLookup ==
    /\ Returned
    /\ Has("dlopen.fail")
    /\ Lookups = 2
    /\ Roundtrips = 1
    /\ ret = FALSE

\* C11: every external call of initialize, the token request of the device
\* callback included, has its result checked: a failed call makes initialize
\* return false, and after a failed token request no token is submitted.
C11_EveryCallChecked ==
    /\ \A j \in 1..Len(calls) :
          calls[j] = "drmGetMagic.fail" =>
              (j = Len(calls) \/ calls[j + 1] # "wl_drm_authenticate")
    /\ (Returned /\ (\/ Has("calloc.fail")
                     \/ Has("dlopen.fail")
                     \/ Has("dlsym.fail")
                     \/ Has("wl_display_bind.fail")
                     \/ Count(calls, "wl_display_get_global.none") = 2
                     \/ Has("drmGetMagic.fail")))
          => ret = FALSE

\* C12: every descriptor opened by the device callback is closed when the
\* following finalize has returned: successful opens equal closes, and no
\* opened descriptor is lost by being overwritten.
C12_EveryOpenedDescriptorClosed ==
    LET held == Count(calls, "open.ok") - Count(calls, "close.ok") IN
    /\ held <= (IF drm_state # NULL /\ fd >= 0 THEN 1 ELSE 0)
    /\ pc = "finalized" => held = 0

\* Round-trips of the registry retry (line 200) and of the handshake (lines
\* 221 and 225) in the trace of this cycle.
RegistryRoundtrips ==
    IF \E j \in 1..(Len(calls) - 1) :
           /\ calls[j] = "wl_display_get_global.none"
           /\ calls[j + 1] = "wl_display_roundtrip"
    THEN 1 ELSE 0
HandshakeRoundtrips == Roundtrips - RegistryRoundtrips

\* C13 as stated: one call of initialize performs at least one and at most
\* two round-trips, on every path.
C13_OneOrTwoRoundtrips ==
    Returned => Roundtrips \in 1..2

\* C13 amended: one call of initialize performs between 0 and 3 round-trips:
\* one before the registry retry exactly when the first lookup found
\* nothing, none more before the listener is registered, one or two after it,
\* and two after it on every successful return.
C13_ZeroToThreeRoundtrips ==
    [](/\ Roundtrips \in 0..3
       /\ Returned =>
           /\ RegistryRoundtrips =
                 (IF Has("wl_display_get_global.none") THEN 1 ELSE 0)
           /\ HandshakeRoundtrips \in
                 (IF Has("wl_drm_add_listener") THEN 1..2 ELSE {0})
           /\ HandshakeRoundtrips = 2 => Has("open.ok")
           /\ ret = TRUE => HandshakeRoundtrips = 2
           /\ Has("calloc.fail") => Roundtrips = 0)

W13_ThreeRoundtrips ==
    /\ Returned
    /\ ret = TRUE
    /\ Roundtrips = 3

\* C14: the registry lookup is the only retried step and is retried exactly
\* once: a found first lookup is followed by no round-trip before the bind; a
\* failed one by exactly one round-trip and exactly one more lookup; when
\* that fails too initialize returns false without loading the library,
\* binding or registering a listener.  No other step runs more than once.
C14_SingleRegistryRetry ==
    [](/\ Lookups <= 2
       /\ Count(calls, "wl_display_get_global.found") <= 1
       /\ RegistryRoundtrips = Roundtrips
             \/ Has("wl_drm_add_listener")
       /\ \A j \in 1..Len(calls) :
             /\ calls[j] = "wl_display_get_global.found" =>
                   (j = Len(calls) \/ calls[j + 1] \in {"dlopen.ok", "dlopen.fail"})
             /\ (calls[j] = "wl_display_get_global.none" /\ j < Len(calls)) =>
                   IF calls[j - 1] = "calloc.ok"
                   THEN /\ calls[j + 1] = "wl_display_roundtrip"
                        /\ j + 1 < Len(calls) =>
                              calls[j + 2] \in {"wl_display_get_global.none",
                                                "wl_display_get_global.found"}
                   ELSE calls[j + 1] \in {"free"}
       /\ Count(calls, "wl_display_get_global.none") = 2 =>
             /\ pc \in {"done", "finalized"}
             /\ ret = FALSE
             /\ Roundtrips = 1
             /\ ~Has("dlopen.ok") /\ ~Has("dlopen.fail")
             /\ ~Has("wl_display_bind.ok") /\ ~Has("wl_display_bind.fail")
             /\ ~Has("wl_drm_add_listener")
       /\ \A c \in { {"calloc.ok", "calloc.fail"}, {"dlopen.ok", "dlopen.fail"},
                     {"dlsym.ok", "dlsym.fail"},
                     {"wl_display_bind.ok", "wl_display_bind.fail"},
                     {"wl_drm_add_listener"} } :
             Cardinality({ j \in 1..Len(calls) : calls[j] \in c }) <= 1)

W14_RetriedLookupFailed ==
    /\ Returned
    /\ Count(calls, "wl_display_get_global.none") = 2
    /\ Roundtrips = 1
    /\ ret = FALSE

\* C15: a failing initialize releases nothing itself: when it returns false
\* every resource acquired before the failing step (state structure, library
\* handle, proxy, opened descriptor) is still held and still referenced from
\* the display context; after a device open followed by unconfirmed
\* authentication the descriptor is still open and fd >= 0.
C15_FailedInitKeepsResources ==
    (Returned /\ ret = FALSE) =>
        /\ ~Has("wl_drm_destroy") /\ ~Has("dlclose")
        /\ ~Has("close.ok") /\ ~Has("close.EBADF") /\ ~Has("free")
        /\ Has("calloc.ok") => drm_state # NULL
        /\ Has("dlopen.ok") => libEGL_handle # NULL
        /\ Has("wl_display_bind.ok") => drm # NULL
        /\ Has("open.ok") =>
              /\ fd >= 0
              /\ fd \in openFds
              /\ Count(calls, "open.ok") = 1

\* C16: on every path of the hook on which the driver query succeeded the
\* driver-metadata record is released exactly once before the return and is
\* not read after its release; when the query fails nothing is released.
C16_VersionFreedExactlyOnce ==
    mapper.called =>
        LET c == mapper.calls
            freed == { j \in 1..Len(c) : c[j] = "drmFreeVersion" }
        IN  IF mapper.drm_version = NULL
            THEN /\ freed = {}
                 /\ c = << "drmGetVersion.fail" >>
            ELSE /\ Cardinality(freed) = 1
                 /\ c[1] = "drmGetVersion.ok"
                 /\ \E k \in 1..Len(c) : c[k] = "drm_version.read"
                 /\ \A j \in freed : \A k \in 1..Len(c) :
                        c[k] = "drm_version.read" => k < j

W16_NoMatchFreed ==
    /\ mapper.called
    /\ mapper.drm_version # NULL
    /\ mapper.status = VA_STATUS_ERROR_UNKNOWN
    /\ mapper.calls[Len(mapper.calls)] = "drmFreeVersion"

\* C17: in the device callback the steps are ordered stat, character-device
\* test, open, token request, submit: an authenticate request is sent only
\* after the open of the same invocation succeeded, hence never while the
\* descriptor is < 0, and an authentication-confirmed event is received only
\* in a cycle in which a device open succeeded.
C17_AuthenticateOnlyAfterOpen ==
    /\ [](\A j \in 1..Len(calls) :
            /\ calls[j] = "wl_drm_authenticate" =>
                  /\ j > 5
                  /\ calls[j - 1] \in {"drmGetMagic.ok", "drmGetMagic.fail"}
                  /\ calls[j - 2] = "open.ok"
            /\ calls[j] \in {"drmGetMagic.ok", "drmGetMagic.fail"} =>
                  calls[j - 1] = "open.ok"
            /\ calls[j] \in {"open.ok", "open.fail"} =>
                  calls[j - 1] = "S_ISCHR.true"
            /\ calls[j] \in {"S_ISCHR.true", "S_ISCHR.false"} =>
                  calls[j - 1] = "stat.ok"
            /\ calls[j] \in {"stat.ok", "stat.fail"} =>
                  calls[j - 1] = "event.device")
    /\ [](/\ Count(calls, "event.authenticated")
                <= Count(calls, "wl_drm_authenticate")
          /\ Has("event.authenticated") => Has("open.ok"))
    /\ [][ Count(calls', "wl_drm_authenticate")
               > Count(calls, "wl_drm_authenticate")
           => (fd' >= 0 /\ fd' \in openFds') ]_vars

W17_ConfirmedAfterOpen ==
    /\ pc = "roundtrip2"
    /\ Has("wl_drm_authenticate")
    /\ Has("event.authenticated")
    /\ fd >= 0
====
